---- MODULE Spec2Model ----
(***************************************************************************)
(* Loader (src/src/Loader.ts): resolution of a named markdown document     *)
(* inside a root directory, with recursive expansion of @(reference)       *)
(* import directives, a per-path cache and a cycle guard.                  *)
(*                                                                         *)
(* Text is modelled character by character: a string is a sequence of      *)
(* one-character strings, so "/r/a.md" is <<"/","r","/","a",".","m","d">>. *)
(* Two kinds of token stand for a whole line of a front matter block: the  *)
(* delimiter line "---" and a YAML line such as "name:a"; "[" is a line    *)
(* the YAML parser rejects.                                                *)
(***************************************************************************)
EXTENDS Integers, Sequences, FiniteSets, TLC

(***************************************************************************)
(* Strings                                                                 *)
(***************************************************************************)
StartsWith(s, p) == Len(s) >= Len(p) /\ SubSeq(s, 1, Len(p)) = p

EndsWith(s, p) == Len(s) >= Len(p) /\ SubSeq(s, Len(s) - Len(p) + 1, Len(s)) = p

Sep == "/"

MdExt == <<".", "m", "d">>

WhiteSpace == {" ", "\n"}

RECURSIVE TrimStart(_)
TrimStart(s) ==
    IF s # <<>> /\ Head(s) \in WhiteSpace THEN TrimStart(Tail(s)) ELSE s

RECURSIVE TrimEnd(_)
TrimEnd(s) ==
    IF s # <<>> /\ s[Len(s)] \in WhiteSpace
    THEN TrimEnd(SubSeq(s, 1, Len(s) - 1))
    ELSE s

\* String.prototype.trim
Trim(s) == TrimEnd(TrimStart(s))

(***************************************************************************)
(* node:path, posix flavour                                                *)
(***************************************************************************)
\* s.split("/")
RECURSIVE SplitSep(_)
SplitSep(s) ==
    IF \A i \in 1..Len(s) : s[i] # Sep
    THEN <<s>>
    ELSE LET i == CHOOSE k \in 1..Len(s) :
                      s[k] = Sep /\ \A j \in 1..(k - 1) : s[j] # Sep
         IN  <<SubSeq(s, 1, i - 1)>> \o SplitSep(SubSeq(s, i + 1, Len(s)))

\* normalizeString of an absolute path: "" and "." are dropped, ".." removes
\* the segment before it and is dropped at the root
RECURSIVE NormSegs(_, _)
NormSegs(segs, acc) ==
    IF segs = <<>> THEN acc
    ELSE LET h == Head(segs)
         IN  NormSegs(Tail(segs),
                 IF h = <<>> \/ h = <<".">> THEN acc
                 ELSE IF h = <<".", ".">>
                      THEN (IF acc = <<>> THEN acc
                            ELSE SubSeq(acc, 1, Len(acc) - 1))
                      ELSE Append(acc, h))

RECURSIVE JoinSegs(_)
JoinSegs(segs) ==
    IF segs = <<>> THEN <<>>
    ELSE IF Len(segs) = 1 THEN Head(segs)
    ELSE Head(segs) \o <<Sep>> \o JoinSegs(Tail(segs))

JoinAbs(segs) == <<Sep>> \o JoinSegs(segs)

\* the normalized segments of an absolute path
AbsSegs(p) == NormSegs(SplitSep(p), <<>>)

\* path.isAbsolute
IsAbsolute(p) == p # <<>> /\ p[1] = Sep

\* path.resolve(base, p), base absolute
PathResolve(base, p) ==
    IF IsAbsolute(p) THEN JoinAbs(AbsSegs(p))
    ELSE JoinAbs(NormSegs(SplitSep(base) \o SplitSep(p), <<>>))

\* path.normalize of an absolute path (a trailing separator is kept)
PathNormalize(p) ==
    LET segs == AbsSegs(p)
    IN  IF segs # <<>> /\ p[Len(p)] = Sep THEN JoinAbs(segs) \o <<Sep>>
        ELSE JoinAbs(segs)

\* path.dirname of an absolute path
PathDirname(p) ==
    LET segs == SplitSep(p)
    IN  IF Len(segs) <= 2 THEN <<Sep>>
        ELSE JoinSegs(SubSeq(segs, 1, Len(segs) - 1))

RECURSIVE CommonLen(_, _)
CommonLen(a, b) ==
    IF a = <<>> \/ b = <<>> \/ Head(a) # Head(b) THEN 0
    ELSE 1 + CommonLen(Tail(a), Tail(b))

\* path.relative(from, to), both absolute
PathRelative(from, to) ==
    LET f  == AbsSegs(from)
        t  == AbsSegs(to)
        k  == CommonLen(f, t)
        up == [i \in 1..(Len(f) - k) |-> <<".", ".">>]
    IN  JoinSegs(up \o SubSeq(t, k + 1, Len(t)))

(***************************************************************************)
(* The Document Store (VirtualFS)                                          *)
(***************************************************************************)
RootDir == <<"/", "r">>

PA == <<"/", "r", "/", "a", ".", "m", "d">>

PB == <<"/", "r", "/", "b", ".", "m", "d">>

PC == <<"/", "r", "/", "c", ".", "m", "d">>

PD == <<"/", "r", "/", "s", "/", "d", ".", "m", "d">>

PX == <<"/", "x", ".", "m", "d">>

Paths == {PA, PB, PC, PD, PX}

\* what the store holds at a path: a regular file with its text, a regular
\* file whose read fails, a directory, an entry whose stat call raises, or
\* nothing
File(raw) == [kind |-> "file", raw |-> raw]

Unreadable == [kind |-> "unreadable", raw |-> <<>>]

Directory == [kind |-> "dir", raw |-> <<>>]

BadStat == [kind |-> "badstat", raw |-> <<>>]

Missing == [kind |-> "missing", raw |-> <<>>]

Lookup(fs, p) == IF p \in DOMAIN fs THEN fs[p] ELSE Missing

\* VirtualFS.existsSync
ExistsSync(fs, p) == Lookup(fs, p).kind # "missing"

\* VirtualFS.statSync(p).isFile(), "throws" when the stat call raises
StatSync(fs, p) ==
    CASE Lookup(fs, p).kind \in {"file", "unreadable"} -> "file"
      [] Lookup(fs, p).kind = "dir" -> "dir"
      [] OTHER -> "throws"

\* VirtualFS.readFileSync: ok is FALSE when the call raises
ReadFileSync(fs, p) ==
    IF Lookup(fs, p).kind = "file"
    THEN [ok |-> TRUE, source |-> Lookup(fs, p).raw]
    ELSE [ok |-> FALSE, source |-> <<>>]

FsCall(op, p) == [op |-> op, path |-> p]

(***************************************************************************)
(* gray-matter: matter(source)                                             *)
(***************************************************************************)
Delim == "---"

YamlLines ==
    {"name:a", "name:b", "version:1", "tools:t, u", "handoffs:h", "handoffs:main",
     "agents:h", "model:q/m"}

IndexOfDelim(s) ==
    IF \E i \in 1..Len(s) : s[i] = Delim
    THEN CHOOSE i \in 1..Len(s) : s[i] = Delim /\ \A j \in 1..(i - 1) : s[j] # Delim
    ELSE Len(s) + 1

\* The text is split into the front matter data, the raw front matter block
\* and the content. Without an
\* opening delimiter line the data is empty and the content is the whole
\* text; otherwise the block runs to the closing delimiter line (or to the
\* end of the text), its lines are parsed as YAML, which raises on a line that
\* is not YAML, and the content is what follows the closing line.
Matter(source) ==
    IF source = <<>> \/ Head(source) # Delim
    THEN [ok |-> TRUE, data |-> {}, content |-> source, matter |-> <<>>]
    ELSE LET str   == Tail(source)
             close == IndexOfDelim(str)
             block == SubSeq(str, 1, close - 1)
         IN  IF \E i \in 1..Len(block) : block[i] \notin YamlLines
             THEN [ok |-> FALSE, data |-> {}, content |-> <<>>, matter |-> block]
             ELSE [ok |-> TRUE,
                   data |-> {block[i] : i \in 1..Len(block)},
                   content |-> SubSeq(str, close + 1, Len(str)),
                   matter |-> block]

(***************************************************************************)
(* Loader: path resolution                                                 *)
(***************************************************************************)
\* an error: its kind, the path its message carries, the chain of a circular
\* reference, and the call of getAgent's body it was raised in
NoError == [kind |-> "none", path |-> <<>>, chain |-> <<>>, origin |-> "none"]

Failure(kind, p) ==
    [kind |-> kind, path |-> p, chain |-> <<>>, origin |-> "parseFile"]

\* #assertWithin as it would be with the startsWith test left out
EscapesBaseOnlyParent(baseDir, filePath) ==
    PathRelative(PathResolve(<<Sep>>, baseDir), PathResolve(<<Sep>>, filePath))
        = <<".", ".">>

\* #assertWithin: TRUE when the call raises "Path escapes base directory"
EscapesBase(baseDir, filePath) ==
    LET normalizedBase   == PathResolve(<<Sep>>, baseDir)
        normalizedTarget == PathResolve(<<Sep>>, filePath)
        targetRelative   == PathRelative(normalizedBase, normalizedTarget)
    IN  \/ targetRelative = <<".", ".">>
        \/ StartsWith(targetRelative, <<".", ".", Sep>>)

\* #isFile
IsFile(fs, filePath) == StatSync(fs, filePath) = "file"

\* #assertFileExists: the store calls it makes, and whether it raises
FileExistsCalls(fs, filePath) ==
    IF ExistsSync(fs, filePath)
    THEN <<FsCall("exists", filePath), FsCall("stat", filePath)>>
    ELSE <<FsCall("exists", filePath)>>

\* #assertFileExists as it would be without the #isFile test
FileExistsOnly(fs, filePath) == ExistsSync(fs, filePath)

FileExists(fs, filePath) == ExistsSync(fs, filePath) /\ IsFile(fs, filePath)

\* #resolveMarkdownPath as it would be if it appended ".md" to every path
ResolveMarkdownPathAlwaysAppending(fs, targetPath, baseDir) ==
    LET resolvedPath == targetPath \o MdExt
    IN  IF EscapesBase(baseDir, resolvedPath)
        THEN [err |-> Failure("PathEscape", resolvedPath), path |-> resolvedPath,
              calls |-> <<>>]
        ELSE IF ~FileExists(fs, resolvedPath)
        THEN [err |-> Failure("NotFound", resolvedPath), path |-> resolvedPath,
              calls |-> FileExistsCalls(fs, resolvedPath)]
        ELSE [err |-> NoError, path |-> resolvedPath,
              calls |-> FileExistsCalls(fs, resolvedPath)]

\* #resolveMarkdownPath as it would be with #assertFileExists called before
\* #assertWithin
ResolveMarkdownPathExistsFirst(fs, targetPath, baseDir) ==
    LET resolvedPath == IF EndsWith(targetPath, MdExt) THEN targetPath
                        ELSE targetPath \o MdExt
    IN  IF ~FileExists(fs, resolvedPath)
        THEN [err |-> Failure("NotFound", resolvedPath), path |-> resolvedPath,
              calls |-> FileExistsCalls(fs, resolvedPath)]
        ELSE IF EscapesBase(baseDir, resolvedPath)
        THEN [err |-> Failure("PathEscape", resolvedPath), path |-> resolvedPath,
              calls |-> FileExistsCalls(fs, resolvedPath)]
        ELSE [err |-> NoError, path |-> resolvedPath,
              calls |-> FileExistsCalls(fs, resolvedPath)]

\* #resolveMarkdownPath: the resolved path, the error raised if any, and the
\* store calls made
ResolveMarkdownPath(fs, targetPath, baseDir) ==
    LET resolvedPath == IF EndsWith(targetPath, MdExt) THEN targetPath
                        ELSE targetPath \o MdExt
    IN  IF EscapesBase(baseDir, resolvedPath)
        THEN [err |-> Failure("PathEscape", resolvedPath), path |-> resolvedPath,
              calls |-> <<>>]
        ELSE IF ~FileExists(fs, resolvedPath)
        THEN [err |-> Failure("NotFound", resolvedPath), path |-> resolvedPath,
              calls |-> FileExistsCalls(fs, resolvedPath)]
        ELSE [err |-> NoError, path |-> resolvedPath,
              calls |-> FileExistsCalls(fs, resolvedPath)]

\* #resolveEntryPath
ResolveEntryPath(fs, name) ==
    ResolveMarkdownPath(fs, PathResolve(RootDir, name), RootDir)

\* #resolveImportPath as it would be if it resolved every reference against
\* the root directory
ResolveImportPathFromRoot(fs, fromFilePath, importPath) ==
    IF importPath = <<>>
    THEN [err |-> Failure("EmptyImportPath", <<>>), path |-> <<>>, calls |-> <<>>]
    ELSE LET targetPath ==
                 IF IsAbsolute(importPath)
                 THEN PathResolve(RootDir, <<".">> \o importPath)
                 ELSE PathResolve(RootDir, importPath)
         IN  ResolveMarkdownPath(fs, targetPath, RootDir)

\* #resolveImportPath
ResolveImportPath(fs, fromFilePath, importPath) ==
    IF importPath = <<>>
    THEN [err |-> Failure("EmptyImportPath", <<>>), path |-> <<>>, calls |-> <<>>]
    ELSE LET targetPath ==
                 IF IsAbsolute(importPath)
                 THEN PathResolve(RootDir, <<".">> \o importPath)
                 ELSE PathResolve(PathDirname(fromFilePath), importPath)
         IN  ResolveMarkdownPath(fs, targetPath, RootDir)

(***************************************************************************)
(* Loader: the import directive, /@\(([^)]+)\)/g                           *)
(***************************************************************************)
\* a match starts at i: "@(", then at least one character other than ")",
\* then ")"
MatchAt(content, i) ==
    /\ i + 3 <= Len(content)
    /\ content[i] = "@"
    /\ content[i + 1] = "("
    /\ content[i + 2] # ")"
    /\ \E j \in (i + 3)..Len(content) : content[j] = ")"

\* the end of the match starting at i: the first ")" after "@("
MatchEnd(content, i) ==
    CHOOSE j \in (i + 3)..Len(content) :
        content[j] = ")" /\ \A k \in (i + 3)..(j - 1) : content[k] # ")"

HasMatch(content, from) == \E i \in from..Len(content) : MatchAt(content, i)

\* the next match at or after position from (lastIndex)
NextMatch(content, from) ==
    LET i == CHOOSE k \in from..Len(content) :
                 MatchAt(content, k) /\ \A m \in from..(k - 1) : ~MatchAt(content, m)
        j == MatchEnd(content, i)
    IN  [start |-> i, end |-> j, importPath |-> SubSeq(content, i + 2, j - 1)]

(***************************************************************************)
(* Loader: state                                                           *)
(***************************************************************************)
VARIABLES
    store,        \* the Document Store: path -> what it holds
    parsedCache,  \* #parsedCache: path -> resolved document
    visiting,     \* the Set passed down by getAgent, in insertion order
    stack,        \* the active #parseFile calls, outermost first
    pc,           \* "idle", "running" (inside #parseFile), "throwing"
    request,      \* the name given to the getAgent call in progress
    err,          \* the error being thrown
    result,       \* the outcome of the last completed getAgent call
    fsLog,        \* the store calls of the current (or last) getAgent call
    watch,        \* one event of an earlier getAgent call, kept for comparison
    created,      \* path -> the number of document objects created for it
    knock         \* the KnockAgent built over the store, and its last lookup

vars == <<store, parsedCache, visiting, stack, pc, request, err, result, fsLog,
          watch, created, knock>>

Range(s) == {s[i] : i \in 1..Len(s)}

Contains(s, x) == \E i \in 1..Len(s) : s[i] = x

\* Set.prototype.delete on the insertion-ordered set
SetDelete(s, x) == SelectSeq(s, LAMBDA y : y # x)

IsRead(c) == c.op = "read"

ReadsOf(log) == SelectSeq(log, IsRead)

ReadPaths(log) == {c.path : c \in Range(ReadsOf(log))}

\* the identity of a document object: the path it was created for and the
\* number of objects created for that path so far
NoDoc == [id |-> <<>>, data |-> {}, content |-> <<>>, matter |-> <<>>]

\* no KnockAgent has been constructed
NoKnock ==
    [variant |-> 0, phase |-> "none", tools |-> {}, agents |-> <<>>,
     models |-> {}, made |-> <<>>, loads |-> <<>>, builds |-> <<>>, warns |-> 0,
     deepest |-> 0,
     last |-> [path |-> <<>>, ret |-> <<>>, threw |-> FALSE]]

Created(p) == IF p \in DOMAIN created THEN created[p] ELSE 0

NoResult == [name |-> <<>>, kind |-> "none", doc |-> NoDoc, warnings |-> 0,
             error |-> NoError]

\* the events of a completed call that can be kept: the document it returned
\* for its name, a path it read, or a path it read and resolved before it
\* failed
NoWatch == [kind |-> "none", name |-> <<>>, doc |-> NoDoc, path |-> <<>>]

Events(res, log) ==
    {[kind |-> "returned", name |-> res.name, doc |-> res.doc, path |-> <<>>] :
         k \in {res.kind} \cap {"doc"}}
    \cup {[kind |-> "read", name |-> <<>>, doc |-> NoDoc, path |-> p] :
              p \in ReadPaths(log)}
    \cup {[kind |-> "completed", name |-> <<>>, doc |-> NoDoc, path |-> p] :
              p \in {q \in ReadPaths(log) :
                        res.kind = "undefined" /\ Created(q) >= 1}}

Top == stack[Len(stack)]

Pop(stk) == SubSeq(stk, 1, Len(stk) - 1)

\* one active #parseFile call: the path, the parsed file (data, content and
\* raw front matter),
\* the replace() scan position, the text produced so far, and the span of the
\* directive whose import is being resolved
Frame(p, parsed) ==
    [path |-> p, data |-> parsed.data, content |-> parsed.content,
     matter |-> parsed.matter, pos |-> 1, out |-> <<>>, mstart |-> 0, mend |-> 0]

\* getAgent as it would be with #resolveEntryPath called before the try block
TryCoversParseOnly(origin) == origin = "parseFile"

\* the try block of getAgent: the calls whose errors its catch clause handles
TryCovers(origin) == origin \in {"resolveEntryPath", "parseFile"}

\* #parseFile as it would be if a path that is being visited were answered
\* with an empty document instead of an error
EnterParseFileBreakingCycles(fs, cache, vis, filePath) ==
    LET normalized == PathNormalize(filePath)
        rd     == ReadFileSync(fs, normalized)
        parsed == Matter(rd.source)
    IN  IF normalized \in DOMAIN cache
        THEN [tag |-> "hit", path |-> normalized, doc |-> cache[normalized],
              err |-> NoError, calls |-> <<>>, parsed |-> Matter(<<>>)]
        ELSE IF Contains(vis, normalized)
        THEN [tag |-> "hit", path |-> normalized, doc |-> NoDoc,
              err |-> NoError, calls |-> <<>>, parsed |-> Matter(<<>>)]
        ELSE IF ~rd.ok
        THEN [tag |-> "fail", path |-> normalized, doc |-> NoDoc,
              err |-> Failure("ReadFailure", normalized),
              calls |-> <<FsCall("read", normalized)>>, parsed |-> Matter(<<>>)]
        ELSE IF ~parsed.ok
        THEN [tag |-> "fail", path |-> normalized, doc |-> NoDoc,
              err |-> Failure("ParseFailure", <<>>),
              calls |-> <<FsCall("read", normalized)>>, parsed |-> Matter(<<>>)]
        ELSE [tag |-> "open", path |-> normalized, doc |-> NoDoc, err |-> NoError,
              calls |-> <<FsCall("read", normalized)>>, parsed |-> parsed]

\* #parseFile as it would be without the visiting test
EnterParseFileNoGuard(fs, cache, vis, filePath) ==
    LET normalized == PathNormalize(filePath)
        rd     == ReadFileSync(fs, normalized)
        parsed == Matter(rd.source)
    IN  IF normalized \in DOMAIN cache
        THEN [tag |-> "hit", path |-> normalized, doc |-> cache[normalized],
              err |-> NoError, calls |-> <<>>, parsed |-> Matter(<<>>)]
        ELSE IF ~rd.ok
        THEN [tag |-> "fail", path |-> normalized, doc |-> NoDoc,
              err |-> Failure("ReadFailure", normalized),
              calls |-> <<FsCall("read", normalized)>>, parsed |-> Matter(<<>>)]
        ELSE IF ~parsed.ok
        THEN [tag |-> "fail", path |-> normalized, doc |-> NoDoc,
              err |-> Failure("ParseFailure", <<>>),
              calls |-> <<FsCall("read", normalized)>>, parsed |-> Matter(<<>>)]
        ELSE [tag |-> "open", path |-> normalized, doc |-> NoDoc, err |-> NoError,
              calls |-> <<FsCall("read", normalized)>>, parsed |-> parsed]

\* #parseFile as it would be without the cache test
EnterParseFileNoCache(fs, cache, vis, filePath) ==
    LET normalized == PathNormalize(filePath)
        rd     == ReadFileSync(fs, normalized)
        parsed == Matter(rd.source)
    IN  IF Contains(vis, normalized)
        THEN [tag |-> "cycle", path |-> normalized, doc |-> NoDoc,
              err |-> [kind |-> "CircularImport", path |-> normalized,
                       chain |-> Append(vis, normalized), origin |-> "parseFile"],
              calls |-> <<>>, parsed |-> Matter(<<>>)]
        ELSE IF ~rd.ok
        THEN [tag |-> "fail", path |-> normalized, doc |-> NoDoc,
              err |-> Failure("ReadFailure", normalized),
              calls |-> <<FsCall("read", normalized)>>, parsed |-> Matter(<<>>)]
        ELSE IF ~parsed.ok
        THEN [tag |-> "fail", path |-> normalized, doc |-> NoDoc,
              err |-> Failure("ParseFailure", <<>>),
              calls |-> <<FsCall("read", normalized)>>, parsed |-> Matter(<<>>)]
        ELSE [tag |-> "open", path |-> normalized, doc |-> NoDoc, err |-> NoError,
              calls |-> <<FsCall("read", normalized)>>, parsed |-> parsed]

\* #parseFile as it would be if an import of a document resolved earlier in
\* the request counted as a circular reference
EnterParseFileVisitedIsCycle(fs, cache, vis, filePath) ==
    LET normalized == PathNormalize(filePath)
        rd     == ReadFileSync(fs, normalized)
        parsed == Matter(rd.source)
    IN  IF normalized \in DOMAIN cache /\ vis = <<>>
        THEN [tag |-> "hit", path |-> normalized, doc |-> cache[normalized],
              err |-> NoError, calls |-> <<>>, parsed |-> Matter(<<>>)]
        ELSE IF Contains(vis, normalized) \/ normalized \in DOMAIN cache
        THEN [tag |-> "cycle", path |-> normalized, doc |-> NoDoc,
              err |-> [kind |-> "CircularImport", path |-> normalized,
                       chain |-> Append(vis, normalized), origin |-> "parseFile"],
              calls |-> <<>>, parsed |-> Matter(<<>>)]
        ELSE IF ~rd.ok
        THEN [tag |-> "fail", path |-> normalized, doc |-> NoDoc,
              err |-> Failure("ReadFailure", normalized),
              calls |-> <<FsCall("read", normalized)>>, parsed |-> Matter(<<>>)]
        ELSE IF ~parsed.ok
        THEN [tag |-> "fail", path |-> normalized, doc |-> NoDoc,
              err |-> Failure("ParseFailure", <<>>),
              calls |-> <<FsCall("read", normalized)>>, parsed |-> Matter(<<>>)]
        ELSE [tag |-> "open", path |-> normalized, doc |-> NoDoc, err |-> NoError,
              calls |-> <<FsCall("read", normalized)>>, parsed |-> parsed]

\* #parseFile up to the point where it returns from the cache, raises, or
\* starts expanding the content it has read and parsed
EnterParseFile(fs, cache, vis, filePath) ==
    LET normalized == PathNormalize(filePath)
        rd     == ReadFileSync(fs, normalized)
        parsed == Matter(rd.source)
    IN  IF normalized \in DOMAIN cache
        THEN [tag |-> "hit", path |-> normalized, doc |-> cache[normalized],
              err |-> NoError, calls |-> <<>>, parsed |-> Matter(<<>>)]
        ELSE IF Contains(vis, normalized)
        THEN [tag |-> "cycle", path |-> normalized, doc |-> NoDoc,
              err |-> [kind |-> "CircularImport", path |-> normalized,
                       chain |-> Append(vis, normalized), origin |-> "parseFile"],
              calls |-> <<>>, parsed |-> Matter(<<>>)]
        ELSE IF ~rd.ok
        THEN [tag |-> "fail", path |-> normalized, doc |-> NoDoc,
              err |-> Failure("ReadFailure", normalized),
              calls |-> <<FsCall("read", normalized)>>, parsed |-> Matter(<<>>)]
        ELSE IF ~parsed.ok
        THEN [tag |-> "fail", path |-> normalized, doc |-> NoDoc,
              err |-> Failure("ParseFailure", <<>>),
              calls |-> <<FsCall("read", normalized)>>, parsed |-> Matter(<<>>)]
        ELSE [tag |-> "open", path |-> normalized, doc |-> NoDoc, err |-> NoError,
              calls |-> <<FsCall("read", normalized)>>, parsed |-> parsed]

\* the replace() callback as it would be if it returned the imported file's
\* front matter block together with its content
DeliverWithFrontMatter(stk, doc) ==
    IF stk = <<>>
    THEN /\ stack' = <<>>
         /\ pc' = "idle"
         /\ result' = [name |-> request', kind |-> "doc", doc |-> doc, warnings |-> 0,
                       error |-> NoError]
    ELSE LET f == stk[Len(stk)]
             g == [f EXCEPT !.out = f.out \o SubSeq(f.content, f.pos, f.mstart - 1)
                                        \o doc.matter \o doc.content,
                            !.pos = f.mend + 1,
                            !.mstart = 0, !.mend = 0]
         IN  /\ stack' = [stk EXCEPT ![Len(stk)] = g]
             /\ pc' = "running"
             /\ UNCHANGED result

\* the replace() callback as it would be if the imported file's front matter
\* data were merged into the importing document's
DeliverMergingData(stk, doc) ==
    IF stk = <<>>
    THEN /\ stack' = <<>>
         /\ pc' = "idle"
         /\ result' = [name |-> request', kind |-> "doc", doc |-> doc, warnings |-> 0,
                       error |-> NoError]
    ELSE LET f == stk[Len(stk)]
             g == [f EXCEPT !.out = f.out \o SubSeq(f.content, f.pos, f.mstart - 1)
                                        \o doc.content,
                            !.data = f.data \cup doc.data,
                            !.pos = f.mend + 1,
                            !.mstart = 0, !.mend = 0]
         IN  /\ stack' = [stk EXCEPT ![Len(stk)] = g]
             /\ pc' = "running"
             /\ UNCHANGED result

\* the value a #parseFile call returns reaches its caller: the replace()
\* callback of the importing document, or getAgent
Deliver(stk, doc) ==
    IF stk = <<>>
    THEN /\ stack' = <<>>
         /\ pc' = "idle"
         /\ result' = [name |-> request', kind |-> "doc", doc |-> doc, warnings |-> 0,
                       error |-> NoError]
    ELSE LET f == stk[Len(stk)]
             g == [f EXCEPT !.out = f.out \o SubSeq(f.content, f.pos, f.mstart - 1)
                                        \o doc.content,
                            !.pos = f.mend + 1,
                            !.mstart = 0, !.mend = 0]
         IN  /\ stack' = [stk EXCEPT ![Len(stk)] = g]
             /\ pc' = "running"
             /\ UNCHANGED result

\* a call of #parseFile(filePath, vis) made with the frames stk active, after
\* the store calls of the path resolution before it
CallParseFile(stk, vis, filePath, calls) ==
    LET e == EnterParseFile(store, parsedCache, vis, filePath)
    IN  /\ fsLog' = calls \o e.calls
        /\ CASE e.tag = "hit" ->
                  /\ Deliver(stk, e.doc)
                  /\ visiting' = vis
                  /\ err' = NoError
             [] e.tag = "cycle" ->
                  /\ stack' = stk
                  /\ visiting' = vis
                  /\ pc' = "throwing"
                  /\ err' = e.err
                  /\ UNCHANGED result
             [] e.tag = "fail" ->
                  /\ stack' = Append(stk, Frame(e.path, e.parsed))
                  /\ visiting' = Append(vis, e.path)
                  /\ pc' = "throwing"
                  /\ err' = e.err
                  /\ UNCHANGED result
             [] e.tag = "open" ->
                  /\ stack' = Append(stk, Frame(e.path, e.parsed))
                  /\ visiting' = Append(vis, e.path)
                  /\ pc' = "running"
                  /\ err' = NoError
                  /\ UNCHANGED result

(***************************************************************************)
(* Loader: operations                                                      *)
(***************************************************************************)
\* the names given to getAgent
Names ==
    { <<"a">>, <<"a", ".", "m", "d">>, <<"a", ".", "x">>, <<"b">>, <<"s", "/", "d">>,
      <<".", ".", "/", "x">>, <<"/", "x">> }

\* getAgent as it would be if it looked in the cache before #resolveEntryPath
\* checked that the file exists
CallCacheFirst(name) ==
    /\ pc = "idle"
    /\ request' = name
    /\ LET r == ResolveEntryPath(store, name)
       IN  IF r.path \in DOMAIN parsedCache
           THEN CallParseFile(<<>>, <<>>, r.path, <<>>)
           ELSE IF r.err.kind # "none"
           THEN /\ pc' = "throwing"
                /\ err' = [r.err EXCEPT !.origin = "resolveEntryPath"]
                /\ stack' = <<>>
                /\ visiting' = <<>>
                /\ fsLog' = r.calls
                /\ UNCHANGED result
           ELSE CallParseFile(<<>>, <<>>, r.path, r.calls)
    /\ UNCHANGED <<knock, store, parsedCache, created>>

\* getAgent(name): #resolveEntryPath, then #parseFile with a new Set
Call(name) ==
    /\ pc = "idle"
    /\ request' = name
    /\ LET r == ResolveEntryPath(store, name)
       IN  IF r.err.kind # "none"
           THEN /\ pc' = "throwing"
                /\ err' = [r.err EXCEPT !.origin = "resolveEntryPath"]
                /\ stack' = <<>>
                /\ visiting' = <<>>
                /\ fsLog' = r.calls
                /\ UNCHANGED result
           ELSE CallParseFile(<<>>, <<>>, r.path, r.calls)
    /\ UNCHANGED <<knock, store, parsedCache, created>>

GetAgent(name) ==
    /\ Call(name)
    /\ UNCHANGED watch

\* getAgent(name), where one event of the calls before it may be kept
GetAgentObserved(name) ==
    /\ Call(name)
    /\ \/ watch' = watch
       \/ watch = NoWatch /\ watch' \in Events(result, fsLog)

\* the replace() callback as it would be if it caught the error of
\* #resolveImportPath and left the directive in the text
ExpandSkippingFailures ==
    /\ pc = "running"
    /\ HasMatch(Top.content, Top.pos)
    /\ UNCHANGED <<knock, store, parsedCache, request, watch, created>>
    /\ LET m   == NextMatch(Top.content, Top.pos)
           r   == ResolveImportPath(store, Top.path, Trim(m.importPath))
           stk == [stack EXCEPT ![Len(stack)] =
                       [Top EXCEPT !.mstart = m.start, !.mend = m.end]]
       IN  IF r.err.kind # "none"
           THEN /\ stack' = [stack EXCEPT ![Len(stack)] =
                                [Top EXCEPT !.out = Top.out
                                               \o SubSeq(Top.content, Top.pos, m.end),
                                            !.pos = m.end + 1]]
                /\ fsLog' = fsLog \o r.calls
                /\ UNCHANGED <<pc, err, visiting, result>>
           ELSE CallParseFile(stk, visiting, r.path, fsLog \o r.calls)

\* the replace() callback of #resolveImports for the next directive of the
\* document on top of the stack: #resolveImportPath, then #parseFile
Expand ==
    /\ pc = "running"
    /\ HasMatch(Top.content, Top.pos)
    /\ UNCHANGED <<knock, store, parsedCache, request, watch, created>>
    /\ LET m   == NextMatch(Top.content, Top.pos)
           r   == ResolveImportPath(store, Top.path, Trim(m.importPath))
           stk == [stack EXCEPT ![Len(stack)] =
                       [Top EXCEPT !.mstart = m.start, !.mend = m.end]]
       IN  IF r.err.kind # "none"
           THEN /\ pc' = "throwing"
                /\ err' = r.err
                /\ stack' = stk
                /\ fsLog' = fsLog \o r.calls
                /\ UNCHANGED <<visiting, result>>
           ELSE CallParseFile(stk, visiting, r.path, fsLog \o r.calls)

\* #parseFile as it would be without the #parsedCache.set call
FinishNotCaching ==
    /\ pc = "running"
    /\ ~HasMatch(Top.content, Top.pos)
    /\ UNCHANGED <<knock, store, request, err, fsLog, watch, parsedCache>>
    /\ LET resolvedContent == Top.out \o SubSeq(Top.content, Top.pos, Len(Top.content))
           resolvedPrompt  == [id |-> <<Top.path, Created(Top.path) + 1>>,
                               data |-> Top.data, content |-> resolvedContent,
                               matter |-> Top.matter]
       IN  /\ created' = (Top.path :> (Created(Top.path) + 1)) @@ created
           /\ visiting' = SetDelete(visiting, Top.path)
           /\ Deliver(Pop(stack), resolvedPrompt)

\* #parseFile as it would be if it stored the parsed file, with its imports
\* unresolved, in the cache
FinishCachingParsed ==
    /\ pc = "running"
    /\ ~HasMatch(Top.content, Top.pos)
    /\ UNCHANGED <<knock, store, request, err, fsLog, watch>>
    /\ LET resolvedContent == Top.out \o SubSeq(Top.content, Top.pos, Len(Top.content))
           resolvedPrompt  == [id |-> <<Top.path, Created(Top.path) + 1>>,
                               data |-> Top.data, content |-> resolvedContent,
                               matter |-> Top.matter]
       IN  /\ parsedCache' = (Top.path :> [resolvedPrompt EXCEPT !.content = Top.content])
                                 @@ parsedCache
           /\ created' = (Top.path :> (Created(Top.path) + 1)) @@ created
           /\ visiting' = SetDelete(visiting, Top.path)
           /\ Deliver(Pop(stack), resolvedPrompt)

\* #parseFile as it would be if a successful return left the path in #visiting
FinishKeepingVisiting ==
    /\ pc = "running"
    /\ ~HasMatch(Top.content, Top.pos)
    /\ UNCHANGED <<knock, store, request, err, fsLog, watch>>
    /\ LET resolvedContent == Top.out \o SubSeq(Top.content, Top.pos, Len(Top.content))
           resolvedPrompt  == [id |-> <<Top.path, Created(Top.path) + 1>>,
                               data |-> Top.data, content |-> resolvedContent,
                               matter |-> Top.matter]
       IN  /\ parsedCache' = (Top.path :> resolvedPrompt) @@ parsedCache
           /\ created' = (Top.path :> (Created(Top.path) + 1)) @@ created
           /\ visiting' = visiting
           /\ Deliver(Pop(stack), resolvedPrompt)

\* replace() has no further match: #parseFile stores the resolved document in
\* the cache, removes its path from visiting and returns the document
Finish ==
    /\ pc = "running"
    /\ ~HasMatch(Top.content, Top.pos)
    /\ UNCHANGED <<knock, store, request, err, fsLog, watch>>
    /\ LET resolvedContent == Top.out \o SubSeq(Top.content, Top.pos, Len(Top.content))
           resolvedPrompt  == [id |-> <<Top.path, Created(Top.path) + 1>>,
                               data |-> Top.data, content |-> resolvedContent,
                               matter |-> Top.matter]
       IN  /\ parsedCache' = (Top.path :> resolvedPrompt) @@ parsedCache
           /\ created' = (Top.path :> (Created(Top.path) + 1)) @@ created
           /\ visiting' = SetDelete(visiting, Top.path)
           /\ Deliver(Pop(stack), resolvedPrompt)

\* #parseFile as it would be without the finally clause
UnwindNoCleanup ==
    /\ pc = "throwing"
    /\ stack # <<>>
    /\ stack' = Pop(stack)
    /\ UNCHANGED <<knock, store, parsedCache, visiting, pc, request, err, result, fsLog,
                   watch, created>>

\* an error leaves a #parseFile call: its finally clause removes its path
\* from visiting
Unwind ==
    /\ pc = "throwing"
    /\ stack # <<>>
    /\ visiting' = SetDelete(visiting, Top.path)
    /\ stack' = Pop(stack)
    /\ UNCHANGED <<knock, store, parsedCache, pc, request, err, result, fsLog, watch,
                   created>>

\* getAgent as it would be if its catch clause emptied the cache
CatchClearingCache ==
    /\ pc = "throwing"
    /\ stack = <<>>
    /\ pc' = "idle"
    /\ result' = [name |-> request,
                  kind |-> IF TryCovers(err.origin) THEN "undefined" ELSE "raised",
                  doc |-> NoDoc,
                  warnings |-> IF TryCovers(err.origin) THEN 1 ELSE 0,
                  error |-> err]
    /\ err' = NoError
    /\ parsedCache' = <<>>
    /\ UNCHANGED <<knock, store, visiting, stack, request, fsLog, watch, created>>

\* the error reaches getAgent: its catch clause logs one warning and returns
\* undefined
Catch ==
    /\ pc = "throwing"
    /\ stack = <<>>
    /\ pc' = "idle"
    /\ result' = [name |-> request,
                  kind |-> IF TryCovers(err.origin) THEN "undefined" ELSE "raised",
                  doc |-> NoDoc,
                  warnings |-> IF TryCovers(err.origin) THEN 1 ELSE 0,
                  error |-> err]
    /\ err' = NoError
    /\ UNCHANGED <<knock, store, parsedCache, visiting, stack, request, fsLog, watch,
                   created>>

(***************************************************************************)
(* The Document Stores a behaviour starts from                             *)
(***************************************************************************)
\* the most regular files, directories and other entries a store holds
MaxFiles == 3

\* an import directive with the given reference text
Imp(ref) == <<"@", "(">> \o ref \o <<")">>

FrontMatter(lines) == <<Delim>> \o lines \o <<Delim>>

PoolA ==
    { Missing,
      File(FrontMatter(<<"name:a", "version:1">>)
             \o <<"h">> \o Imp(<<".", "/", "b">>) \o <<"t">>),
      File(Imp(<<".", "/", "b">>) \o <<" ">> \o Imp(<<".", "/", "c">>)),
      File(Imp(<<".", "/", "a">>)),
      File(<<"@">> \o Imp(<<".", "/", "b">>)),
      File(<<"@", "(", ")", "t">>),
      File(<<"h">> \o Imp(<<" ">>)),
      File(Imp(<<"s", "/", "d">>)),
      File(Imp(<<".", "/", "b">>) \o Imp(<<".", "/", "b">>)) }

PoolB ==
    { Missing, Directory,
      File(FrontMatter(<<"name:b">>) \o <<"m">>),
      File(FrontMatter(<<"name:b", "[">>) \o <<"m">>),
      File(Imp(<<".", "/", "a">>)),
      File(<<"p">> \o Imp(<<" ", "c", " ">>)),
      File(<<"(", "x", ")">>) }

PoolC ==
    { Missing, BadStat, Unreadable,
      File(<<"u">>),
      File(Imp(<<".", "/", "b">>)),
      File(Imp(<<".", "/", "b", ".", "m", "d">>)) }

PoolD ==
    { Missing,
      File(Imp(<<".", ".", "/", "b">>)),
      File(Imp(<<"/", "b">>)),
      File(Imp(<<"/", ".", ".", "/", "x">>)),
      File(Imp(<<"q", "/", ".", ".", "/", ".", ".", "/", ".", ".", "/", "x">>)) }

PoolX == { Missing, File(<<"z">>) }

Stores ==
    { fs \in { (PA :> a) @@ (PB :> b) @@ (PC :> c) @@ (PD :> d) @@ (PX :> x) :
                 a \in PoolA, b \in PoolB, c \in PoolC, d \in PoolD, x \in PoolX } :
        Cardinality({p \in Paths : fs[p] # Missing}) <= MaxFiles }

(***************************************************************************)
(* Specification                                                           *)
(***************************************************************************)
Init ==
    /\ store \in Stores
    /\ parsedCache = <<>>
    /\ visiting = <<>>
    /\ stack = <<>>
    /\ pc = "idle"
    /\ request = <<>>
    /\ err = NoError
    /\ result = NoResult
    /\ fsLog = <<>>
    /\ watch = NoWatch
    /\ created = <<>>
    /\ knock = NoKnock

Next ==
    \/ \E name \in Names : GetAgent(name)
    \/ Expand
    \/ Finish
    \/ Unwind
    \/ Catch

Spec == Init /\ [][Next]_vars

NextObserved ==
    \/ \E name \in Names : GetAgentObserved(name)
    \/ Expand
    \/ Finish
    \/ Unwind
    \/ Catch

\* the stores whose files all lie directly in the root directory
FlatStores == {fs \in Stores : fs[PD] = Missing /\ fs[PX] = Missing}

InitObserved == Init /\ store \in FlatStores

SpecObserved == InitObserved /\ [][NextObserved]_vars

\* the stores of a root directory in which a.md and b.md are written, rewritten
\* and removed while the Loader lives
ChangingStores ==
    { fs \in Stores :
        /\ fs[PC] = Missing /\ fs[PD] = Missing /\ fs[PX] = Missing
        /\ fs[PA] \in { Missing,
                        File(FrontMatter(<<"name:a", "version:1">>)
                               \o <<"h">> \o Imp(<<".", "/", "b">>) \o <<"t">>),
                        File(<<"@">> \o Imp(<<".", "/", "b">>)) }
        /\ fs[PB] \in { Missing,
                        File(FrontMatter(<<"name:b">>) \o <<"m">>),
                        File(<<"(", "x", ")">>) } }

\* between two getAgent calls the files under the root directory change
ChangeStore ==
    /\ pc = "idle"
    /\ store' \in ChangingStores \ {store}
    /\ UNCHANGED <<parsedCache, visiting, stack, pc, request, err, result, fsLog,
                   watch, created, knock>>

InitChanging == Init /\ store \in ChangingStores

NextChanging ==
    \/ \E name \in Names : GetAgent(name)
    \/ Expand
    \/ Finish
    \/ Unwind
    \/ Catch
    \/ ChangeStore

SpecChanging == InitChanging /\ [][NextChanging]_vars

(***************************************************************************)
(* Notions the properties are stated with                                  *)
(***************************************************************************)
RootSegs == AbsSegs(RootDir)

\* the path lies in the root directory or below it
InsideRoot(p) ==
    LET segs == AbsSegs(p)
    IN  Len(segs) >= Len(RootSegs) /\ SubSeq(segs, 1, Len(RootSegs)) = RootSegs

WithExt(p) == IF EndsWith(p, MdExt) THEN p ELSE p \o MdExt

\* the normalized target of an entry name and of an import reference
EntryTarget(name) == WithExt(PathResolve(RootDir, name))

ImportTarget(from, ref) ==
    WithExt(IF IsAbsolute(ref) THEN PathResolve(RootDir, <<".">> \o ref)
            ELSE PathResolve(PathDirname(from), ref))

\* the reference of the directive a frame is resolving
PendingRef(f) == Trim(SubSeq(f.content, f.mstart + 2, f.mend - 1))

\* the directives of a content, left to right
RECURSIVE Directives(_, _)
Directives(content, from) ==
    IF ~HasMatch(content, from) THEN <<>>
    ELSE LET m == NextMatch(content, from)
         IN  <<m>> \o Directives(content, m.end + 1)

\* the body of the document the store holds at p
BodyOf(fs, p) == Matter(Lookup(fs, p).raw).content

\* the import graph of a store: the documents the directives of p lead to
ImportsOf(fs, p) ==
    LET rd == ReadFileSync(fs, p)
        ds == Directives(BodyOf(fs, p), 1)
        to(i) == ResolveImportPath(fs, p, Trim(ds[i].importPath))
    IN  IF ~rd.ok \/ ~Matter(rd.source).ok THEN {}
        ELSE {to(i).path : i \in {j \in 1..Len(ds) : to(j).err.kind = "none"}}

RECURSIVE ReachableFrom(_, _)
ReachableFrom(fs, S) ==
    LET T == S \cup UNION {ImportsOf(fs, q) : q \in S}
    IN  IF T = S THEN S ELSE ReachableFrom(fs, T)

OnCycle(fs, q) == q \in ReachableFrom(fs, ImportsOf(fs, q))

CycleReachable(fs, entry) == \E q \in ReachableFrom(fs, {entry}) : OnCycle(fs, q)

\* the documents of a store: the regular files it holds
NumDocs(fs) ==
    Cardinality({p \in DOMAIN fs : fs[p].kind \in {"file", "unreadable"}})

\* content with every directive replaced by the cached content of its target
RECURSIVE Spliced(_, _, _, _, _)
Spliced(fs, cache, p, content, from) ==
    IF ~HasMatch(content, from) THEN SubSeq(content, from, Len(content))
    ELSE LET m == NextMatch(content, from)
             e == ResolveImportPath(fs, p, Trim(m.importPath)).path
         IN  SubSeq(content, from, m.start - 1)
             \o (IF e \in DOMAIN cache THEN cache[e].content ELSE <<"?">>)
             \o Spliced(fs, cache, p, content, m.end + 1)

\* the tokens of a front matter block
MetaTokens == YamlLines \cup {Delim, "["}

\* the documents no #parseFile call has entered yet
Unvisited ==
    {p \in DOMAIN store : /\ store[p].kind \in {"file", "unreadable"}
                          /\ p \notin DOMAIN parsedCache
                          /\ ~Contains(visiting, p)}

\* the text the active replace() scans still have before them
RECURSIVE Remaining(_)
Remaining(stk) ==
    IF stk = <<>> THEN 0
    ELSE (Len(Head(stk).content) - Head(stk).pos + 2) + Remaining(Tail(stk))

LongestRaw(fs) ==
    CHOOSE n \in {Len(fs[p].raw) : p \in DOMAIN fs} :
        \A q \in DOMAIN fs : Len(fs[q].raw) <= n

\* more than twice the text all scans together can have before them
Weight(fs) == 2 + 2 * Cardinality(DOMAIN fs) * (LongestRaw(fs) + 2)

\* a natural number every step inside a getAgent call makes smaller: entering
\* a document uses up an unvisited one, a substitution or a return shortens
\* the text left to scan, and an error only pops frames
Measure ==
    CASE pc = "running"  -> Weight(store) * (Cardinality(Unvisited) + 1)
                              + 2 * Remaining(stack)
      [] pc = "throwing" -> Len(stack) + 1
      [] OTHER           -> 0

\* no path occurs twice among the reads of a log
NoDupReads(log) ==
    \A i, j \in 1..Len(log) :
        (i < j /\ log[i].op = "read" /\ log[j].op = "read")
            => log[i].path # log[j].path

\* the calls a step adds to the log (getAgent starts a new log)
NewCalls == IF pc = "idle" THEN fsLog' ELSE SubSeq(fsLog', Len(fsLog) + 1, Len(fsLog'))

\* the text holds "@(", then a possibly empty reference, then ")"
HasDirectiveForm(content) ==
    \E i \in 1..Len(content), j \in 1..Len(content) :
        /\ i + 2 <= j
        /\ content[i] = "@" /\ content[i + 1] = "(" /\ content[j] = ")"

(***************************************************************************)
(* Properties                                                              *)
(***************************************************************************)
\* C1: no error leaves getAgent: a completed call has returned a resolved
\* document, the one cached for its entry path, or undefined, whatever the
\* store holds and whatever failed.
C1_NoErrorEscapes ==
    /\ result.kind \in {"none", "doc", "undefined"}
    /\ (pc = "idle" /\ result.kind = "doc")
          => /\ EntryTarget(result.name) \in DOMAIN parsedCache
             /\ result.doc = parsedCache[EntryTarget(result.name)]

\* a call that failed with a malformed front matter block has returned undefined
C1_Witness ==
    /\ pc = "idle"
    /\ result.kind = "undefined"
    /\ result.error.kind = "ParseFailure"

\* C2: when the expansion from the entry reaches a document that is still being
\* visited, getAgent returns undefined and logs one warning; a call never
\* returns a document when the import graph reachable from its entry has a cycle.
C2_CycleGivesAbsent ==
    /\ (pc = "idle" /\ result.error.kind = "CircularImport")
          => (result.kind = "undefined" /\ result.warnings = 1)
    /\ (pc = "idle" /\ result.kind = "doc")
          => ~CycleReachable(store, EntryTarget(result.name))

\* a.md imports b.md, which imports a.md: getAgent("a") has returned undefined
C2_Witness ==
    /\ pc = "idle"
    /\ result.name = <<"a">>
    /\ result.kind = "undefined"
    /\ result.warnings = 1
    /\ result.error.kind = "CircularImport"
    /\ result.error.chain = <<PA, PB, PA>>

\* C3: a getAgent call terminates: while a call is active a step is always
\* possible and every step makes a natural number smaller; the depth of the
\* recursion and the number of #parseFile calls that go on to read a document
\* never exceed the number of documents in the store.
C3_Terminates ==
    [][/\ (pc # "idle") => (Measure' >= 0 /\ Measure' < Measure)
       /\ (pc' = "running") => stack' # <<>>
       /\ Len(stack') <= NumDocs(store)
       /\ Len(ReadsOf(fsLog')) <= NumDocs(store)]_vars

\* the recursion is as deep as the store has documents, three of them
C3_Witness ==
    /\ pc = "running"
    /\ NumDocs(store) = 3
    /\ Len(stack) = 3

\* C4: an entry name or a non-empty import reference whose target lies outside
\* the root directory fails with PathEscape; every path read or cached lies
\* inside the root directory.
C4_EscapeFails ==
    /\ (pc = "idle" /\ result.kind # "none" /\ ~InsideRoot(EntryTarget(result.name)))
          => result.error.kind = "PathEscape"
    /\ \A i \in 1..Len(stack) :
          (/\ stack[i].mstart > 0
           /\ PendingRef(stack[i]) # <<>>
           /\ ~InsideRoot(ImportTarget(stack[i].path, PendingRef(stack[i]))))
             => (pc = "throwing" /\ err.kind = "PathEscape")
    /\ \A i \in 1..Len(fsLog) : fsLog[i].op = "read" => InsideRoot(fsLog[i].path)
    /\ \A p \in DOMAIN parsedCache : InsideRoot(p)

\* the document in the subdirectory imports q/../../../x while /x.md exists
C4_Witness ==
    /\ pc = "throwing"
    /\ err.kind = "PathEscape"
    /\ err.path = PX
    /\ store[PX] # Missing
    /\ Len(stack) = 1
    /\ Top.path = PD
    /\ PendingRef(Top) = <<"q", "/", ".", ".", "/", ".", ".", "/", ".", ".", "/", "x">>

\* C5: the content of a resolved document is its own body with the span of
\* each directive replaced by the resolved content of the imported document,
\* and holds no front matter text.
C5_ImportSplicedVerbatim ==
    \A p \in DOMAIN parsedCache :
        /\ parsedCache[p].content
              = Spliced(store, parsedCache, p, BodyOf(store, p), 1)
        /\ \A i \in 1..Len(parsedCache[p].content) :
              parsedCache[p].content[i] \notin MetaTokens

\* "h@(./b)t" importing a document with front matter and body "m" gives "hmt"
C5_Witness ==
    /\ PA \in DOMAIN parsedCache
    /\ PB \in DOMAIN parsedCache
    /\ Matter(store[PB].raw).data = {"name:b"}
    /\ parsedCache[PB].content = <<"m">>
    /\ parsedCache[PA].content = <<"h", "m", "t">>

\* C6: the data of a resolved document is the data of its own front matter.
C6_MetadataOwn ==
    \A p \in DOMAIN parsedCache :
        parsedCache[p].data = Matter(Lookup(store, p).raw).data

\* a document with front matter has imported another one with front matter
C6_Witness ==
    /\ pc = "idle"
    /\ result.kind = "doc"
    /\ result.doc.data = {"name:a", "version:1"}
    /\ PB \in DOMAIN parsedCache
    /\ parsedCache[PB].data = {"name:b"}

\* C7: two successful getAgent calls with the same name, with any calls in
\* between, return the same object, and the later one reads nothing.
C7_SameObject ==
    (/\ pc = "idle"
     /\ result.kind = "doc"
     /\ watch.kind = "returned"
     /\ watch.name = result.name)
        => (result.doc = watch.doc /\ ReadsOf(fsLog) = <<>>)

\* getAgent("a") has returned again the document it built from a.md and b.md
C7_Witness ==
    /\ pc = "idle"
    /\ result.kind = "doc"
    /\ result.name = <<"a">>
    /\ watch.kind = "returned"
    /\ watch.name = <<"a">>
    /\ PB \in DOMAIN parsedCache
    /\ fsLog # <<>>
    /\ ReadsOf(fsLog) = <<>>

\* C8 as stated: over any sequence of getAgent calls, successful or failing,
\* no path is read more than once.
C8_ReadAtMostOnce ==
    /\ NoDupReads(fsLog)
    /\ watch.kind = "read" => watch.path \notin ReadPaths(fsLog)

\* C8: within one getAgent call no path is read twice, and no call reads a
\* path whose document is in the cache; a document whose resolution failed is
\* not in the cache and a later call reads it again.
C8_ReadOncePerCallNeverIfCached ==
    [][/\ NoDupReads(fsLog')
       /\ \A i \in 1..Len(NewCalls) :
             NewCalls[i].op = "read" => NewCalls[i].path \notin DOMAIN parsedCache]_vars

\* getAgent("b") read b.md; a later getAgent("a") read a.md only
C8_Witness ==
    /\ pc = "idle"
    /\ result.kind = "doc"
    /\ result.name = <<"a">>
    /\ watch.kind = "read"
    /\ watch.path = PB
    /\ PB \in DOMAIN parsedCache
    /\ ReadPaths(fsLog) = {PA}

\* C9: the chain of a CircularImport error starts at the first occurrence of
\* the revisited path on the resolution stack and ends with that path; what is
\* on the stack before it is not in the chain.
C9_ChainIsCycle ==
    err.kind = "CircularImport"
        => /\ err.chain[1] = err.path
           /\ err.chain[Len(err.chain)] = err.path
           /\ \A i \in 2..(Len(err.chain) - 1) : err.chain[i] # err.path

\* C10: the content getAgent returns holds no text of the form "@(" reference
\* ")", the reference possibly empty.
C10_NoDirectiveLeft ==
    (pc = "idle" /\ result.kind = "doc") => ~HasDirectiveForm(result.doc.content)

\* C11: visiting is empty when no getAgent call is active, before a call and
\* after it, and when a #parseFile call returns or lets an error through, its
\* path is no longer in visiting.
C11_VisitingCleared ==
    [][/\ (pc = "idle") => visiting = <<>>
       /\ (pc' = "idle") => visiting' = <<>>
       /\ (Len(stack') < Len(stack)) => ~Contains(visiting', Top.path)]_vars

\* a read failure in a nested document has left every #parseFile call
C11_Witness ==
    /\ pc = "throwing"
    /\ err.kind = "ReadFailure"
    /\ stack = <<>>
    /\ visiting = <<>>
    /\ Len(ReadsOf(fsLog)) >= 2

\* C12: a document whose resolution completed before a getAgent call failed
\* is in the cache when the call has ended and stays there, and a later call
\* does not read it.
C12_PartialWorkKept ==
    /\ (pc = "idle" /\ result.kind = "undefined")
          => \A p \in ReadPaths(fsLog) : Created(p) >= 1 => p \in DOMAIN parsedCache
    /\ watch.kind = "completed"
          => /\ watch.path \in DOMAIN parsedCache
             /\ watch.path \notin ReadPaths(fsLog)

\* getAgent("a") resolved b.md and then failed; getAgent("b") has returned
\* the document without a read
C12_Witness ==
    /\ pc = "idle"
    /\ watch.kind = "completed"
    /\ watch.path = PB
    /\ PA \notin DOMAIN parsedCache
    /\ result.kind = "doc"
    /\ result.name = <<"b">>
    /\ result.doc = parsedCache[PB]
    /\ ReadsOf(fsLog) = <<>>

\* the documents a call read that have no cache entry, in the order read
IsUncached(c) == c.path \notin DOMAIN parsedCache

UncachedReads(log) == SelectSeq(ReadsOf(log), IsUncached)

\* C13 as stated: after a failed getAgent call at most one document the call
\* read, the failing one, has no cache entry.
C13_OnlyFailingPathUncached ==
    (pc = "idle" /\ result.kind = "undefined")
        => Len(UncachedReads(fsLog)) <= 1

\* C13: while a call resolves, every document it has read is in the cache or
\* still being resolved; after a failed call the documents it read that have no
\* cache entry are the ones that were being resolved when it failed: the entry
\* document, then each time a document the one before imports, down to the
\* point of failure; every other document the call read has a cache entry.
C13_UncachedAreTheFailingChain ==
    /\ pc = "running"
          => \A p \in ReadPaths(fsLog) :
                 p \in DOMAIN parsedCache \/ Contains(visiting, p)
    /\ (pc = "idle" /\ result.kind = "undefined" /\ ReadsOf(fsLog) # <<>>)
          => LET u == UncachedReads(fsLog)
             IN  /\ u # <<>>
                 /\ u[1].path = EntryTarget(result.name)
                 /\ \A i \in 1..(Len(u) - 1) :
                        u[i + 1].path \in ImportsOf(store, u[i].path)

\* a.md imports b.md, which resolves, and c.md, which cannot be read
C13_Witness ==
    /\ pc = "idle"
    /\ result.kind = "undefined"
    /\ result.error.kind = "ReadFailure"
    /\ ReadPaths(fsLog) = {PA, PB, PC}
    /\ PB \in DOMAIN parsedCache
    /\ PA \notin DOMAIN parsedCache
    /\ PC \notin DOMAIN parsedCache

\* the outcome of getAgent(name) worked out from the store alone, without a
\* cache: every import is read, parsed and expanded where it occurs
FreshFail == [ok |-> FALSE, data |-> {}, content |-> <<>>]

RECURSIVE FreshParse(_, _, _), FreshImports(_, _, _, _, _)
FreshImports(fs, p, vis, content, from) ==
    IF ~HasMatch(content, from)
    THEN [ok |-> TRUE, data |-> {}, content |-> SubSeq(content, from, Len(content))]
    ELSE LET m == NextMatch(content, from)
             r == ResolveImportPath(fs, p, Trim(m.importPath))
             sub  == FreshParse(fs, r.path, vis)
             rest == FreshImports(fs, p, vis, content, m.end + 1)
         IN  IF r.err.kind # "none" THEN FreshFail
             ELSE IF ~sub.ok THEN FreshFail
             ELSE IF ~rest.ok THEN FreshFail
             ELSE [ok |-> TRUE, data |-> {},
                   content |-> SubSeq(content, from, m.start - 1)
                                 \o sub.content \o rest.content]

FreshParse(fs, filePath, vis) ==
    LET normalized == PathNormalize(filePath)
        rd     == ReadFileSync(fs, normalized)
        parsed == Matter(rd.source)
        body   == FreshImports(fs, normalized, vis \cup {normalized}, parsed.content, 1)
    IN  IF normalized \in vis THEN FreshFail
        ELSE IF ~rd.ok \/ ~parsed.ok THEN FreshFail
        ELSE IF ~body.ok THEN FreshFail
        ELSE [ok |-> TRUE, data |-> parsed.data, content |-> body.content]

FreshGetAgent(fs, name) ==
    LET r == ResolveEntryPath(fs, name)
    IN  IF r.err.kind # "none" THEN FreshFail ELSE FreshParse(fs, r.path, {})

\* C14: whatever getAgent calls came before on the same Loader, a call returns
\* undefined exactly when the same call on a Loader with an empty cache does,
\* and otherwise a document with the same data and content.
C14_SameAsFreshLoader ==
    (pc = "idle" /\ result.kind # "none")
        => LET f == FreshGetAgent(store, result.name)
           IN  /\ (result.kind = "doc") = f.ok
               /\ f.ok => (result.doc.data = f.data /\ result.doc.content = f.content)

\* b.md was cached by an earlier call and the store holds a document no call
\* has resolved; getAgent("a") read a.md only
C14_Witness ==
    /\ pc = "idle"
    /\ result.kind = "doc"
    /\ result.name = <<"a">>
    /\ result.doc.content = <<"h", "m", "t">>
    /\ ReadPaths(fsLog) = {PA}
    /\ PB \in DOMAIN parsedCache
    /\ store[PD] # Missing
    /\ PD \notin DOMAIN parsedCache

\* a name or reference with ".md" appended unless it ends with it
WithDefaultExt(ref) == IF EndsWith(ref, MdExt) THEN ref ELSE ref \o MdExt

\* the segments of the directory a document lies in
DirSegs(p) == LET segs == AbsSegs(p) IN SubSeq(segs, 1, Len(segs) - 1)

\* the target of a reference taken from the given directory
FromDir(dirSegs, ref) == WithExt(JoinAbs(NormSegs(dirSegs \o SplitSep(ref), <<>>)))

\* C15: an entry name is resolved as the name with ".md" appended unless it
\* already ends with ".md", and so is an import reference: the document
\* returned, the document entered and the path a NotFound error names are those
\* of the name so completed; "a" and "a.md" give the same cache entry.
C15_DefaultExtension ==
    /\ (pc = "idle" /\ result.kind = "doc")
          => /\ result.doc.id[1] = PathResolve(RootDir, WithDefaultExt(result.name))
             /\ result.doc = parsedCache[PathResolve(RootDir, WithDefaultExt(result.name))]
    /\ (pc = "idle" /\ result.error.kind = "NotFound"
                    /\ result.error.origin = "resolveEntryPath")
          => result.error.path = PathResolve(RootDir, WithDefaultExt(result.name))
    /\ \A i \in 1..(Len(stack) - 1) :
          /\ EndsWith(stack[i + 1].path, MdExt)
          /\ stack[i + 1].path
                = ImportTarget(stack[i].path, WithDefaultExt(PendingRef(stack[i])))

\* getAgent("a.md") has returned the document getAgent("a") cached
C15_Witness ==
    /\ pc = "idle"
    /\ result.kind = "doc"
    /\ result.name = <<"a", ".", "m", "d">>
    /\ result.doc.id = <<PA, 1>>
    /\ ReadsOf(fsLog) = <<>>

\* C16: a reference starting with the separator is taken from the root
\* directory wherever the importing document lies, every other non-empty
\* reference from the directory of the document holding the directive: the
\* step that resolves a directive fails naming that target, enters that
\* target, or substitutes the cached content of that target.
C16_ReferenceBase ==
    [][(pc = "running" /\ HasMatch(Top.content, Top.pos))
          => LET m   == NextMatch(Top.content, Top.pos)
                 ref == Trim(m.importPath)
                 e   == IF ref[1] = Sep THEN FromDir(RootSegs, ref)
                        ELSE FromDir(DirSegs(Top.path), ref)
             IN  ref # <<>>
                   => \/ /\ pc' = "throwing"
                         /\ Len(stack') = Len(stack)
                         /\ err'.path = e
                      \/ /\ Len(stack') = Len(stack) + 1
                         /\ stack'[Len(stack')].path = e
                      \/ /\ pc' = "running"
                         /\ Len(stack') = Len(stack)
                         /\ e \in DOMAIN parsedCache
                         /\ stack'[Len(stack')].out
                               = Top.out \o SubSeq(Top.content, Top.pos, m.start - 1)
                                         \o parsedCache[e].content]_vars

\* a.md imports s/d, and /r/s/d.md imports ../b: b.md is being resolved
C16_Witness ==
    /\ Len(stack) = 3
    /\ stack[1].path = PA
    /\ stack[2].path = PD
    /\ PendingRef(stack[2]) = <<".", ".", "/", "b">>
    /\ stack[3].path = PB

\* the text holds a directive whose reference is empty after trimming
HasEmptyDirective(content) ==
    \E i \in 1..Len(content), j \in 1..Len(content) :
        /\ i + 2 <= j
        /\ content[i] = "@" /\ content[i + 1] = "(" /\ content[j] = ")"
        /\ \A k \in (i + 2)..(j - 1) : content[k] \in WhiteSpace

\* C17: a document whose body holds a directive with a reference that is empty
\* after trimming, "@()" or "@( )", is never resolved: no such document gets
\* into the cache.
C17_EmptyImportFails ==
    \A p \in DOMAIN parsedCache : ~HasEmptyDirective(BodyOf(store, p))

\* a regular file
IsRegular(fs, p) == Lookup(fs, p).kind \in {"file", "unreadable"}

\* C18: resolving an entry name or a non-empty import reference whose target
\* lies inside the root directory fails with NotFound, naming the target,
\* exactly when the store has no regular file at the target: a missing path, a
\* directory and a path whose stat call raises all give NotFound.
C18_NotFoundUnlessRegularFile ==
    [][/\ (pc = "idle" /\ InsideRoot(EntryTarget(request')))
             => (~IsRegular(store, EntryTarget(request'))
                   <=> (/\ pc' = "throwing"
                        /\ err'.kind = "NotFound"
                        /\ err'.path = EntryTarget(request')))
       /\ (pc = "running" /\ HasMatch(Top.content, Top.pos))
             => LET ref == Trim(NextMatch(Top.content, Top.pos).importPath)
                    e   == ImportTarget(Top.path, ref)
                IN  (ref # <<>> /\ InsideRoot(e))
                      => (~IsRegular(store, e)
                            <=> (/\ pc' = "throwing"
                                 /\ err'.kind = "NotFound"
                                 /\ err'.path = e))]_vars

\* a.md imports c.md, for which the store's stat call raises
C18_Witness ==
    /\ pc = "throwing"
    /\ err.kind = "NotFound"
    /\ err.path = PC
    /\ store[PC] = BadStat
    /\ Len(stack) = 1
    /\ Top.path = PA

\* C19: the error a failed getAgent call logs names the path of the document
\* whose resolution failed, or for a cycle the chain of paths.
C19_WarningNamesPath ==
    (pc = "idle" /\ result.kind = "undefined")
        => (result.error.path # <<>> \/ result.error.chain # <<>>)

\* C20: an entry of the cache is never removed and never replaced, and for
\* each path at most one document object is ever created and stored.
C20_CacheOnlyGrows ==
    [][/\ \A p \in DOMAIN parsedCache :
             p \in DOMAIN parsedCache' /\ parsedCache'[p] = parsedCache[p]
       /\ \A p \in DOMAIN created' :
             /\ created'[p] = 1
             /\ p \in DOMAIN parsedCache'
             /\ parsedCache'[p].id = <<p, 1>>]_vars

\* getAgent("b") cached b.md; getAgent("a.md") then added a.md to the cache
C20_Witness ==
    /\ pc = "idle"
    /\ result.kind = "doc"
    /\ result.name = <<"a", ".", "m", "d">>
    /\ ReadPaths(fsLog) = {PA}
    /\ DOMAIN parsedCache = {PA, PB}
    /\ created[PA] = 1
    /\ created[PB] = 1

\* the first error of the expansion of a document, directives taken left to
\* right and each import expanded before the next directive, worked out from
\* the store alone
RECURSIVE FirstErrorParse(_, _, _), FirstErrorImports(_, _, _, _, _)
FirstErrorImports(fs, p, vis, content, from) ==
    IF ~HasMatch(content, from) THEN NoError
    ELSE LET m == NextMatch(content, from)
             r == ResolveImportPath(fs, p, Trim(m.importPath))
             sub == FirstErrorParse(fs, r.path, vis)
         IN  IF r.err.kind # "none" THEN r.err
             ELSE IF sub.kind # "none" THEN sub
             ELSE FirstErrorImports(fs, p, vis, content, m.end + 1)

FirstErrorParse(fs, filePath, vis) ==
    LET rd     == ReadFileSync(fs, filePath)
        parsed == Matter(rd.source)
    IN  IF Contains(vis, filePath)
        THEN [kind |-> "CircularImport", path |-> filePath,
              chain |-> Append(vis, filePath), origin |-> "parseFile"]
        ELSE IF ~rd.ok THEN Failure("ReadFailure", filePath)
        ELSE IF ~parsed.ok THEN Failure("ParseFailure", <<>>)
        ELSE FirstErrorImports(fs, filePath, Append(vis, filePath), parsed.content, 1)

FirstError(fs, name) ==
    LET r == ResolveEntryPath(fs, name)
    IN  IF r.err.kind # "none" THEN r.err ELSE FirstErrorParse(fs, r.path, <<>>)

\* C24: directives are resolved left to right, each import fully before the
\* next directive, and the first failure ends the request: the error getAgent
\* logs is the first one in that order, and once an error is thrown no store
\* call is made, nothing is cached and the error does not change.
C24_FirstFailureStops ==
    [][/\ (pc = "throwing")
             => /\ fsLog' = fsLog
                /\ parsedCache' = parsedCache
                /\ \/ pc' = "throwing" /\ err' = err
                   \/ pc' = "idle" /\ result'.error = err
       /\ (pc # "idle" /\ pc' = "idle")
             => /\ result'.error.kind = FirstError(store, result'.name).kind
                /\ result'.error.path = FirstError(store, result'.name).path]_vars

\* a.md imports b.md, which is a directory, and then c.md, which cannot be
\* read: the call failed on b.md and never touched c.md
C24_Witness ==
    /\ pc = "idle"
    /\ result.kind = "undefined"
    /\ result.error.kind = "NotFound"
    /\ result.error.path = PB
    /\ store[PB] = Directory
    /\ store[PC] = Unreadable
    /\ ReadPaths(fsLog) = {PA}
    /\ \A i \in 1..Len(fsLog) : fsLog[i].path # PC

C27_SandboxBeforeStore ==
    [][/\ (pc = "idle" /\ ~InsideRoot(EntryTarget(request')))
             => /\ pc' = "throwing"
                /\ err'.kind = "PathEscape"
                /\ fsLog' = <<>>
       /\ (pc = "running" /\ HasMatch(Top.content, Top.pos))
             => LET ref == Trim(NextMatch(Top.content, Top.pos).importPath)
                IN  (ref # <<>> /\ ~InsideRoot(ImportTarget(Top.path, ref)))
                       => /\ pc' = "throwing"
                          /\ err'.kind = "PathEscape"
                          /\ fsLog' = fsLog
       /\ \A i \in 1..Len(fsLog') : InsideRoot(fsLog'[i].path)]_vars

\* /x.md exists outside the root directory: getAgent("/x") failed with
\* PathEscape and made no store call
C27_Witness ==
    /\ pc = "idle"
    /\ result.name = <<"/", "x">>
    /\ result.kind = "undefined"
    /\ result.error.kind = "PathEscape"
    /\ result.error.path = PX
    /\ store[PX] # Missing
    /\ fsLog = <<>>

\* C28: visiting holds the paths of the #parseFile calls on the call stack, in
\* call order and without a duplicate, so its size is the depth of the
\* recursion, which the number of documents of the store bounds.
C28_VisitingIsTheStack ==
    /\ visiting = [i \in 1..Len(stack) |-> stack[i].path]
    /\ \A i, j \in 1..Len(visiting) : i < j => visiting[i] # visiting[j]
    /\ Len(visiting) <= NumDocs(store)

\* a.md imports b.md, which imports c.md: three calls are on the stack
C28_Witness ==
    /\ pc = "running"
    /\ Len(stack) = 3
    /\ visiting = <<PA, PB, PC>>

\* C29: in one getAgent call, whether it succeeds or fails, no path is read
\* more than once.
C29_OneReadPerPath ==
    /\ NoDupReads(fsLog)
    /\ Len(ReadsOf(fsLog)) = Cardinality(ReadPaths(fsLog))

\* a.md imports b.md twice: getAgent("a") read a.md and b.md once each
C29_Witness ==
    /\ pc = "idle"
    /\ result.kind = "doc"
    /\ Len(Directives(BodyOf(store, PA), 1)) = 2
    /\ ImportsOf(store, PA) = {PB}
    /\ Len(ReadsOf(fsLog)) = 2
    /\ ReadPaths(fsLog) = {PA, PB}

\* C26: once a path is in the cache, a later resolution of it, as an entry
\* name or as an import, returns the cached document (its body and metadata)
\* without a read, whatever the store now holds as the content of that file
\* and of the files it imports, as long as the path passes the existence
\* check that comes before the cache lookup.
C26_CachedWinsOverStore ==
    [][/\ (/\ pc = "idle" /\ store' = store
           /\ EntryTarget(request') \in DOMAIN parsedCache
           /\ IsRegular(store, EntryTarget(request')))
             => /\ pc' = "idle"
                /\ result'.kind = "doc"
                /\ result'.doc = parsedCache[EntryTarget(request')]
                /\ ReadsOf(fsLog') = <<>>
       /\ (pc = "running" /\ HasMatch(Top.content, Top.pos))
             => LET m == NextMatch(Top.content, Top.pos)
                    r == ResolveImportPath(store, Top.path, Trim(m.importPath))
                IN  (r.err.kind = "none" /\ r.path \in DOMAIN parsedCache)
                       => /\ pc' = "running"
                          /\ ReadsOf(fsLog') = ReadsOf(fsLog)
                          /\ stack'[Len(stack')].out
                                = Top.out \o SubSeq(Top.content, Top.pos, m.start - 1)
                                          \o parsedCache[r.path].content]_vars

\* a.md was resolved as "hmt" with b.md spliced in; a.md has been rewritten and
\* b.md removed since, and getAgent("a") returned the cached document without
\* a read
C26_Witness ==
    /\ pc = "idle"
    /\ result.kind = "doc"
    /\ result.name = <<"a">>
    /\ result.doc.content = <<"h", "m", "t">>
    /\ result.doc.data = {"name:a", "version:1"}
    /\ store[PA] = File(<<"@">> \o Imp(<<".", "/", "b">>))
    /\ store[PB] = Missing
    /\ fsLog # <<>>
    /\ ReadsOf(fsLog) = <<>>

\* C30: the existence check comes before the cache lookup on every resolution:
\* when the store no longer holds a regular file at a cached path, getAgent
\* for it, and an import of it, fails with NotFound naming the path, getAgent
\* returns undefined, and the cache is left as it was.
C30_ExistenceBeforeCache ==
    [][/\ (/\ pc = "idle" /\ store' = store
           /\ EntryTarget(request') \in DOMAIN parsedCache
           /\ ~IsRegular(store, EntryTarget(request')))
             => /\ pc' = "throwing"
                /\ err'.kind = "NotFound"
                /\ err'.path = EntryTarget(request')
                /\ parsedCache' = parsedCache
       /\ (pc = "running" /\ HasMatch(Top.content, Top.pos))
             => LET ref == Trim(NextMatch(Top.content, Top.pos).importPath)
                    e   == ImportTarget(Top.path, ref)
                IN  (ref # <<>> /\ e \in DOMAIN parsedCache /\ ~IsRegular(store, e))
                       => /\ pc' = "throwing"
                          /\ err'.kind = "NotFound"
                          /\ err'.path = e
                          /\ parsedCache' = parsedCache
       /\ (pc = "throwing" /\ pc' = "idle")
             => /\ result'.kind = "undefined"
                /\ parsedCache' = parsedCache]_vars

\* b.md was cached and then removed: a later call failed with NotFound for it
\* and its cache entry is still there
C30_Witness ==
    /\ pc = "idle"
    /\ result.kind = "undefined"
    /\ result.error.kind = "NotFound"
    /\ result.error.path = PB
    /\ PB \in DOMAIN parsedCache
    /\ parsedCache[PB].content = <<"m">>
    /\ store[PB] = Missing

(***************************************************************************)
(* KnockAgent: the registry of agents built from the documents             *)
(***************************************************************************)
\* the key and the value of a front matter line
YamlField(line) ==
    CASE line = "name:a"        -> [key |-> "name", value |-> <<"a">>]
      [] line = "name:b"        -> [key |-> "name", value |-> <<"b">>]
      [] line = "version:1"     -> [key |-> "version", value |-> <<"1">>]
      [] line = "tools:t, u"    -> [key |-> "tools", value |-> <<"t", ",", " ", "u">>]
      [] line = "handoffs:h"    -> [key |-> "handoffs", value |-> <<"h">>]
      [] line = "handoffs:main" -> [key |-> "handoffs", value |-> <<"m", "a", "i", "n">>]
      [] line = "agents:h"      -> [key |-> "agents", value |-> <<"h">>]
      [] line = "model:q/m"     -> [key |-> "model", value |-> <<"q", "/", "m">>]
      [] OTHER                  -> [key |-> "", value |-> <<>>]

\* agentMeta.data[key], the empty text standing for undefined
DataValue(data, key) ==
    IF \E l \in data : YamlField(l).key = key
    THEN YamlField(CHOOSE l \in data : YamlField(l).key = key).value
    ELSE <<>>

\* list.split(",")
RECURSIVE SplitComma(_)
SplitComma(s) ==
    IF \A i \in 1..Len(s) : s[i] # ","
    THEN <<s>>
    ELSE LET i == CHOOSE k \in 1..Len(s) :
                      s[k] = "," /\ \A j \in 1..(k - 1) : s[j] # ","
         IN  <<SubSeq(s, 1, i - 1)>> \o SplitComma(SubSeq(s, i + 1, Len(s)))

\* split(list): the trimmed, non-empty items of a comma-separated list
Split(list) ==
    IF list = <<>> THEN <<>>
    ELSE LET parts == SplitComma(list)
         IN  SelectSeq([i \in 1..Len(parts) |-> Trim(parts[i])], LAMBDA l : l # <<>>)

\* config.providers and config.defaultModel
Providers == {<<"p">>}

DefaultModel == <<"p", "/", "m">>

\* the names of the tools a configuration may hold
ToolNames == {<<"t">>}

\* the entry agent
Main == <<"m", "a", "i", "n">>

PMain == RootDir \o <<"/">> \o Main \o MdExt

PH == <<"/", "r", "/", "h", ".", "m", "d">>

\* null, returned for a path that has no document
NoAgent == <<>>

\* the deepest nesting of getAgent calls the call stack has room for
MaxCallDepth == 4

\* this.#loader.getAgent(path): the outcome of the Loader over the store
LoaderGetAgent(fs, path) == FreshGetAgent(fs, path)

\* #getModel
GetModel(st, model) ==
    IF model \in st.models THEN [st |-> st, threw |-> FALSE]
    ELSE IF SplitSep(model)[1] \notin Providers THEN [st |-> st, threw |-> TRUE]
    ELSE [st |-> [st EXCEPT !.models = @ \cup {model}, !.builds = Append(@, model)],
          threw |-> FALSE]

Made(st, path) == IF path \in DOMAIN st.made THEN st.made[path] ELSE 0

\* the value of an expression, worked out once and handed to what follows
With(value, Then(_)) == CHOOSE r \in {Then(v) : v \in {value}} : TRUE

\* agentDefineConfig: the fields of the front matter getAgent wires agents with
AgentDefineConfig(agentMeta) ==
    [model        |-> IF DataValue(agentMeta.data, "model") # <<>>
                      THEN DataValue(agentMeta.data, "model") ELSE DefaultModel,
     instructions |-> agentMeta.content,
     handoffs     |-> Split(DataValue(agentMeta.data, "handoffs")),
     agents       |-> Split(DataValue(agentMeta.data, "agents")),
     tools        |-> Split(DataValue(agentMeta.data, "tools"))]

\* new Agent(...): an object of its own, with no handoffs and no tools yet
NewAgent(st, path, config) ==
    [id |-> <<path, Made(st, path) + 1>>, instructions |-> config.instructions,
     model |-> config.model, handoffs |-> <<>>, tools |-> <<>>, done |-> FALSE]

\* this.#agents.set(path, agent)
SetAgent(st, path, agent) ==
    [st EXCEPT !.agents = (path :> agent) @@ @, !.made = (path :> agent.id[2]) @@ @]

\* agent.tools: the agents of the agents list as tools, then the listed tools
\* that are registered
Mounted(st, agents, tools) ==
    [i \in 1..Len(agents) |-> <<"agent", agents[i]>>]
      \o SelectSeq([i \in 1..Len(tools) |-> <<"tool", tools[i]>>],
                   LAMBDA t : t[2] \in st.tools)

\* a getAgent call is entered: the deepest nesting of calls so far is kept
Enter(st, depth) == [st EXCEPT !.deepest = IF depth > @ THEN depth ELSE @]

RECURSIVE KnockGetAgent(_, _, _, _), KnockGetAgents(_, _, _, _)
\* getAgent as it would be if the agent were put in #agents after its handoffs
\* and tools are wired
KnockGetAgentRegisteringLast(fs, st, path, depth) ==
    IF depth > MaxCallDepth
    THEN [st |-> Enter(st, depth), ret |-> NoAgent, threw |-> TRUE]
    ELSE IF path \in DOMAIN st.agents
    THEN [st |-> Enter(st, depth), ret |-> st.agents[path].id, threw |-> FALSE]
    ELSE
    With(LoaderGetAgent(fs, path), LAMBDA agentMeta :
      IF ~agentMeta.ok
      THEN [st |-> [Enter(st, depth) EXCEPT !.loads = Append(@, path), !.warns = @ + 1],
            ret |-> NoAgent, threw |-> FALSE]
      ELSE
      With(AgentDefineConfig(agentMeta), LAMBDA config :
      With(GetModel([Enter(st, depth) EXCEPT !.loads = Append(@, path)], config.model),
           LAMBDA g :
        IF g.threw THEN [st |-> g.st, ret |-> NoAgent, threw |-> TRUE]
        ELSE
        With(KnockGetAgents(fs, g.st, config.handoffs, depth + 1), LAMBDA hs :
          IF hs.threw THEN [st |-> hs.st, ret |-> NoAgent, threw |-> TRUE]
          ELSE
          With(KnockGetAgents(fs, hs.st, config.agents, depth + 1), LAMBDA as :
            IF as.threw THEN [st |-> as.st, ret |-> NoAgent, threw |-> TRUE]
            ELSE
            With(NewAgent(as.st, path, config), LAMBDA agent :
              [st |-> SetAgent(as.st, path,
                               [agent EXCEPT
                                  !.handoffs = hs.rets,
                                  !.tools = Mounted(as.st, as.rets, config.tools),
                                  !.done = TRUE]),
               ret |-> agent.id, threw |-> FALSE]))))))

\* getAgent as it would be without the lookup in #agents
KnockGetAgentNoRegistry(fs, st, path, depth) ==
    IF depth > MaxCallDepth
    THEN [st |-> Enter(st, depth), ret |-> NoAgent, threw |-> TRUE]
    ELSE
    With(LoaderGetAgent(fs, path), LAMBDA agentMeta :
      IF ~agentMeta.ok
      THEN [st |-> [Enter(st, depth) EXCEPT !.loads = Append(@, path), !.warns = @ + 1],
            ret |-> NoAgent, threw |-> FALSE]
      ELSE
      With(AgentDefineConfig(agentMeta), LAMBDA config :
      With(GetModel([Enter(st, depth) EXCEPT !.loads = Append(@, path)], config.model),
           LAMBDA g :
        IF g.threw THEN [st |-> g.st, ret |-> NoAgent, threw |-> TRUE]
        ELSE
        With(NewAgent(g.st, path, config), LAMBDA agent :
        With(KnockGetAgents(fs, SetAgent(g.st, path, agent), config.handoffs, depth + 1),
             LAMBDA hs :
          IF hs.threw THEN [st |-> hs.st, ret |-> NoAgent, threw |-> TRUE]
          ELSE
          With(KnockGetAgents(fs, [hs.st EXCEPT !.agents[path].handoffs = hs.rets],
                              config.agents, depth + 1),
               LAMBDA as :
            IF as.threw THEN [st |-> as.st, ret |-> NoAgent, threw |-> TRUE]
            ELSE [st |-> [as.st EXCEPT
                            !.agents[path].tools = Mounted(as.st, as.rets, config.tools),
                            !.agents[path].done = TRUE],
                  ret |-> agent.id, threw |-> FALSE]))))))

\* getAgent(path) of the first variant, #getAgent(path) of the second: the
\* agent for a path, built on the first lookup with the agents its handoffs
\* and agents lists name; st is the KnockAgent before the call, and the call
\* stack overflows beyond MaxCallDepth nested calls
KnockGetAgent(fs, st, path, depth) ==
    IF depth > MaxCallDepth
    THEN [st |-> Enter(st, depth), ret |-> NoAgent, threw |-> TRUE]
    ELSE IF path \in DOMAIN st.agents
    THEN [st |-> Enter(st, depth), ret |-> st.agents[path].id, threw |-> FALSE]
    ELSE
    With(LoaderGetAgent(fs, path), LAMBDA agentMeta :
      IF ~agentMeta.ok
      THEN [st |-> [Enter(st, depth) EXCEPT !.loads = Append(@, path), !.warns = @ + 1],
            ret |-> NoAgent, threw |-> FALSE]
      ELSE
      With(AgentDefineConfig(agentMeta), LAMBDA config :
      With(GetModel([Enter(st, depth) EXCEPT !.loads = Append(@, path)], config.model),
           LAMBDA g :
        IF g.threw THEN [st |-> g.st, ret |-> NoAgent, threw |-> TRUE]
        ELSE
        With(NewAgent(g.st, path, config), LAMBDA agent :
        With(KnockGetAgents(fs, SetAgent(g.st, path, agent), config.handoffs, depth + 1),
             LAMBDA hs :
          IF hs.threw THEN [st |-> hs.st, ret |-> NoAgent, threw |-> TRUE]
          ELSE
          With(KnockGetAgents(fs, [hs.st EXCEPT !.agents[path].handoffs = hs.rets],
                              config.agents, depth + 1),
               LAMBDA as :
            IF as.threw THEN [st |-> as.st, ret |-> NoAgent, threw |-> TRUE]
            ELSE [st |-> [as.st EXCEPT
                            !.agents[path].tools = Mounted(as.st, as.rets, config.tools),
                            !.agents[path].done = TRUE],
                  ret |-> agent.id, threw |-> FALSE]))))))

\* list.map(h => this.getAgent(h)).filter(a => !!a)
KnockGetAgents(fs, st, paths, depth) ==
    IF paths = <<>> THEN [st |-> st, rets |-> <<>>, threw |-> FALSE]
    ELSE
    With(KnockGetAgent(fs, st, Head(paths), depth), LAMBDA r :
      IF r.threw THEN [st |-> r.st, rets |-> <<>>, threw |-> TRUE]
      ELSE
      With(KnockGetAgents(fs, r.st, Tail(paths), depth), LAMBDA rest :
        [st |-> rest.st,
         rets |-> (IF r.ret = NoAgent THEN <<>> ELSE <<r.ret>>) \o rest.rets,
         threw |-> rest.threw]))

\* the KnockAgent at the start of a call: the logs of the call are empty
Fresh(st) == [st EXCEPT !.loads = <<>>, !.builds = <<>>, !.warns = 0, !.deepest = 0]

\* new KnockAgent(config), first variant: the main agent is built, then the
\* tools of the configuration are registered
KnockAgentNew1(configTools) ==
    /\ knock.phase = "none"
    /\ LET r == KnockGetAgent(store, [NoKnock EXCEPT !.variant = 1], Main, 1)
       IN  knock' =
             IF r.threw \/ r.ret = NoAgent
             THEN [r.st EXCEPT !.phase = "threw",
                               !.last = [path |-> Main, ret |-> NoAgent, threw |-> TRUE]]
             ELSE [r.st EXCEPT !.phase = "ready", !.tools = configTools,
                               !.last = [path |-> Main, ret |-> r.ret, threw |-> FALSE]]
    /\ UNCHANGED <<store, parsedCache, visiting, stack, pc, request, err, result,
                   fsLog, watch, created>>

\* new KnockAgent(config), second variant: the tools are registered and no
\* agent is built
KnockAgentNew2(configTools) ==
    /\ knock.phase = "none"
    /\ knock' = [NoKnock EXCEPT !.variant = 2, !.phase = "ready", !.tools = configTools]
    /\ UNCHANGED <<store, parsedCache, visiting, stack, pc, request, err, result,
                   fsLog, watch, created>>

\* the paths looked up
AgentPaths == {Main, <<"h">>, <<"g">>}

\* getAgent(path) of the first variant
GetAgent1(path) ==
    /\ knock.phase = "ready"
    /\ knock.variant = 1
    /\ LET r == KnockGetAgent(store, Fresh(knock), path, 1)
       IN  knock' = [r.st EXCEPT !.last = [path |-> path, ret |-> r.ret,
                                            threw |-> r.threw]]
    /\ UNCHANGED <<store, parsedCache, visiting, stack, pc, request, err, result,
                   fsLog, watch, created>>

\* runAgent(agentPath, input) of the second variant, run(input) being
\* runAgent("main", input): it throws when there is no agent for the path
RunAgent2(agentPath) ==
    /\ knock.phase = "ready"
    /\ knock.variant = 2
    /\ LET r == KnockGetAgent(store, Fresh(knock), agentPath, 1)
       IN  knock' = [r.st EXCEPT !.last = [path |-> agentPath, ret |-> r.ret,
                                            threw |-> r.threw \/ r.ret = NoAgent]]
    /\ UNCHANGED <<store, parsedCache, visiting, stack, pc, request, err, result,
                   fsLog, watch, created>>

PoolMain ==
    { Missing,
      File(FrontMatter(<<"tools:t, u">>) \o <<"i">>),
      File(FrontMatter(<<"handoffs:h">>) \o <<"i">>),
      File(FrontMatter(<<"agents:h", "tools:t, u">>) \o <<"i">>),
      File(FrontMatter(<<"model:q/m">>) \o <<"i">>),
      File(FrontMatter(<<"handoffs:main">>) \o <<"i">>) }

PoolH ==
    { Missing,
      File(FrontMatter(<<"tools:t, u">>) \o <<"j">>),
      File(FrontMatter(<<"handoffs:main">>) \o <<"j">>),
      File(FrontMatter(<<"model:q/m">>) \o <<"j">>) }

\* the agent directories: main.md and h.md
KnockStores == { (PMain :> a) @@ (PH :> h) : a \in PoolMain, h \in PoolH }

InitKnock ==
    /\ store \in KnockStores
    /\ parsedCache = <<>>
    /\ visiting = <<>>
    /\ stack = <<>>
    /\ pc = "idle"
    /\ request = <<>>
    /\ err = NoError
    /\ result = NoResult
    /\ fsLog = <<>>
    /\ watch = NoWatch
    /\ created = <<>>
    /\ knock = NoKnock

NextKnock ==
    \/ \E configTools \in SUBSET ToolNames : KnockAgentNew1(configTools)
    \/ \E configTools \in SUBSET ToolNames : KnockAgentNew2(configTools)
    \/ \E path \in AgentPaths : GetAgent1(path)
    \/ \E agentPath \in AgentPaths : RunAgent2(agentPath)

SpecKnock == InitKnock /\ [][NextKnock]_vars

\* C21: when main.md is missing from the root directory, or cannot be loaded,
\* the constructor of either variant throws: a KnockAgent exists only over a
\* store whose main.md the Loader resolves.
C21_NoMainNoKnockAgent ==
    (knock.phase = "ready") => LoaderGetAgent(store, Main).ok

\* the tool names the front matter of the document of a path lists
ListedTools(fs, path) == Range(Split(DataValue(LoaderGetAgent(fs, path).data, "tools")))

\* C22: the tools of the configuration are registered before any agent is
\* built: every agent that was built to the end, the main agent included, has
\* each tool of the configuration that its front matter lists among its tools.
C22_ListedToolsMounted ==
    (knock.phase = "ready")
        => \A path \in DOMAIN knock.agents :
              knock.agents[path].done
                 => \A t \in ListedTools(store, path) \cap knock.tools :
                       <<"tool", t>> \in Range(knock.agents[path].tools)

\* C23: the agent of a path is created on the first lookup that reaches it and
\* never again: a registered agent stays the same object, a lookup of a
\* registered path returns it without a Loader call and without a provider
\* call, no lookup loads a registered path or asks a provider for a model
\* again, and the handoffs and tools of every agent are registered agents.
C23_AgentBuiltOnce ==
    [][/\ \A path \in DOMAIN knock.agents :
             /\ path \in DOMAIN knock'.agents
             /\ knock'.agents[path].id = knock.agents[path].id
       /\ \A path \in DOMAIN knock'.made : knock'.made[path] = 1
       /\ (knock.phase = "ready" /\ knock'.last.path \in DOMAIN knock.agents)
             => /\ knock'.last.ret = knock.agents[knock'.last.path].id
                /\ ~knock'.last.threw
                /\ knock'.loads = <<>>
                /\ knock'.builds = <<>>
       /\ (knock.phase = "ready")
             => /\ \A path \in DOMAIN knock.agents : path \notin Range(knock'.loads)
                /\ \A model \in knock.models : model \notin Range(knock'.builds)
       /\ \A path \in DOMAIN knock'.agents :
             LET a == knock'.agents[path]
             IN  /\ \A i \in 1..Len(a.handoffs) :
                       /\ a.handoffs[i][1] \in DOMAIN knock'.agents
                       /\ a.handoffs[i] = knock'.agents[a.handoffs[i][1]].id
                 /\ \A i \in 1..Len(a.tools) :
                       a.tools[i][1] = "agent"
                          => /\ a.tools[i][2][1] \in DOMAIN knock'.agents
                             /\ a.tools[i][2] = knock'.agents[a.tools[i][2][1]].id]_vars

\* main.md hands off to h.md, so building the main agent built the agent of
\* h; a later lookup of h returned that agent without a load or a model call
C23_Witness ==
    /\ knock.phase = "ready"
    /\ knock.last = [path |-> <<"h">>, ret |-> <<<<"h">>, 1>>, threw |-> FALSE]
    /\ knock.loads = <<>>
    /\ knock.builds = <<>>
    /\ knock.agents[Main].handoffs = << <<<<"h">>, 1>> >>
    /\ knock.agents[<<"h">>].done

\* the entry name leads to a regular file inside the root directory
EntryResolves(fs, name) ==
    InsideRoot(EntryTarget(name)) /\ IsRegular(fs, EntryTarget(name))

\* the document at q can be read and split, and each directive of its body has
\* a reference that is not empty and leads to a regular file inside the root
\* directory
DocResolves(fs, q) ==
    LET ds == Directives(BodyOf(fs, q), 1)
    IN  /\ Lookup(fs, q).kind = "file"
        /\ Matter(Lookup(fs, q).raw).ok
        /\ ~HasEmptyDirective(BodyOf(fs, q))
        /\ \A i \in 1..Len(ds) :
              LET ref == Trim(ds[i].importPath)
              IN  /\ ref # <<>>
                  /\ InsideRoot(ImportTarget(q, ref))
                  /\ IsRegular(fs, ImportTarget(q, ref))

\* the entry and every reference reachable from it resolve, and no cycle of
\* imports is reachable from the entry
Resolvable(fs, name) ==
    /\ EntryResolves(fs, name)
    /\ \A q \in ReachableFrom(fs, {EntryTarget(name)}) : DocResolves(fs, q)
    /\ ~CycleReachable(fs, EntryTarget(name))

\* the body of the document at q with each directive replaced, left to right,
\* by the expansion of the document it names (for a resolvable document)
RECURSIVE Expansion(_, _, _, _)
Expansion(fs, q, content, from) ==
    IF ~HasMatch(content, from) THEN SubSeq(content, from, Len(content))
    ELSE LET m == NextMatch(content, from)
             e == ImportTarget(q, Trim(m.importPath))
         IN  SubSeq(content, from, m.start - 1)
               \o Expansion(fs, e, BodyOf(fs, e), 1)
               \o Expansion(fs, q, content, m.end + 1)

\* C31: over a store that does not change, getAgent returns a document exactly
\* when the entry and every reference reachable from it resolve (not empty,
\* inside the root directory, a regular file that can be read and split) and
\* no cycle of imports is reachable from the entry; the content returned is
\* then the recursive expansion of the entry's body.
C31_DocumentIffResolvable ==
    (pc = "idle" /\ result.kind # "none")
        => /\ (result.kind = "doc") <=> Resolvable(store, result.name)
           /\ Resolvable(store, result.name)
                 => result.doc.content
                       = Expansion(store, EntryTarget(result.name),
                                   BodyOf(store, EntryTarget(result.name)), 1)

\* the agents the front matter of the document of a path names in a list
\* ("handoffs" or "agents") and the Loader resolves
Listed(fs, path, list) ==
    {q \in Range(Split(DataValue(LoaderGetAgent(fs, path).data, list))) :
        LoaderGetAgent(fs, q).ok}

\* C32: building an agent whose handoffs or agents lists form a cycle (main
\* lists h and h lists main, or main lists itself) ends: the getAgent calls
\* nest no deeper than the number of registered agents plus one, because an
\* agent is registered before its lists are wired; and every agent built to
\* the end holds, for each agent its lists name, the one registered object of
\* that agent.
C32_CyclesTerminate ==
    /\ knock.deepest <= Cardinality(DOMAIN knock.agents) + 1
    /\ \A path \in DOMAIN knock.agents :
          knock.agents[path].done
             => /\ \A q \in Listed(store, path, "handoffs") :
                      /\ q \in DOMAIN knock.agents
                      /\ knock.made[q] = 1
                      /\ knock.agents[q].id \in Range(knock.agents[path].handoffs)
                /\ \A q \in Listed(store, path, "agents") :
                      /\ q \in DOMAIN knock.agents
                      /\ knock.made[q] = 1
                      /\ <<"agent", knock.agents[q].id>>
                            \in Range(knock.agents[path].tools)

\* main.md hands off to h and h.md hands off to main: the lookup of main
\* nested three calls deep and left two agents that refer to each other
C32_Witness ==
    /\ knock.phase = "ready"
    /\ knock.last.path = Main
    /\ ~knock.last.threw
    /\ knock.deepest = 3
    /\ DOMAIN knock.agents = {Main, <<"h">>}
    /\ knock.agents[Main].done /\ knock.agents[<<"h">>].done
    /\ knock.agents[Main].handoffs = << knock.agents[<<"h">>].id >>
    /\ knock.agents[<<"h">>].handoffs = << knock.agents[Main].id >>

\* C33: the registry holds no partly wired agent: when building an agent
\* throws while one of its handoff or agents targets is wired, the agent is
\* not left in the registry, so every registered agent was built to the end.
C33_NoPartlyWiredAgent ==
    (knock.phase = "ready")
        => \A path \in DOMAIN knock.agents : knock.agents[path].done

====
